---- MODULE Spec2Model ----
(***************************************************************************)
(* Model of the crudapp order-entry application                            *)
(* (src/crudproject/crudapp: models.py, forms.py, views.py, urls.py).      *)
(*                                                                         *)
(* The state is the Orders table and, for each of NReq request handlers    *)
(* that the server may run at the same time, the request it is handling,   *)
(* the handler's local `form`, its position and its response.  Text is a   *)
(* sequence of one-character strings, so that parsing, stripping and the   *)
(* length limits are computed and not assumed.                             *)
(*                                                                         *)
(* views.py calls form.is_valid() and form.save() of a ModelForm over      *)
(* Orders.  What these calls do for this model is fixed by the             *)
(* declarations in models.py and forms.py:                                 *)
(*   - is_valid() cleans each of the six fields (all required, since no    *)
(*     model field sets blank=True) and then, for the fields that cleaned  *)
(*     without error, runs the model's uniqueness checks; oid is the       *)
(*     primary key, hence unique, and the instance is new, so is_valid()   *)
(*     queries the table for a row with the same oid;                      *)
(*   - save() of an instance whose primary key is set and has no default   *)
(*     issues UPDATE ... WHERE oid = .., and only when that matches no row *)
(*     an INSERT; the two statements are separate store accesses.          *)
(***************************************************************************)
EXTENDS Integers, Sequences, FiniteSets, TLC

VARIABLES store, pc, req, form, resp

vars == <<store, pc, req, form, resp>>

\* Number of request handlers the server may run concurrently.
NReq == 2

Req == 1..NReq

\* models.py: max_length of fname/lname and of addr.
NameMaxLength == 20
AddrMaxLength == 50
\* Django's EmailField default max_length is not reached by any input here.

\* The order ids used as inputs (forms.py's placeholder is 'eg. 101').
OIDS == {101, 102}

-----------------------------------------------------------------------------
\* Text helpers

Digits == <<"0", "1", "2", "3", "4", "5", "6", "7", "8", "9">>

IsDigit(c) == \E i \in 1..10 : Digits[i] = c

DigitVal(c) == (CHOOSE i \in 1..10 : Digits[i] = c) - 1

Letters == {"a", "b", "c", "d", "e", "f", "g", "h", "i", "j", "k", "l", "m",
            "n", "o", "p", "q", "r", "s", "t", "u", "v", "w", "x", "y", "z",
            "A", "B", "C", "D", "E", "F", "G", "H", "I", "J", "K", "L", "M",
            "N", "O", "P", "Q", "R", "S", "T", "U", "V", "W", "X", "Y", "Z"}

IsAlnum(c) == c \in Letters \/ IsDigit(c)

Rep(c, n) == [i \in 1..n |-> c]

RECURSIVE IntToStr(_)
IntToStr(n) ==
    IF n < 10 THEN <<Digits[n + 1]>>
    ELSE Append(IntToStr(n \div 10), Digits[(n % 10) + 1])

RECURSIVE LStrip(_)
LStrip(s) == IF s # <<>> /\ Head(s) = " " THEN LStrip(Tail(s)) ELSE s

RECURSIVE RStrip(_)
RStrip(s) ==
    IF s # <<>> /\ s[Len(s)] = " " THEN RStrip(SubSeq(s, 1, Len(s) - 1)) ELSE s

\* str.strip() as the form fields apply it to their input.
Strip(s) == RStrip(LStrip(s))

RECURSIVE DigitsValue(_)
DigitsValue(s) ==
    IF s = <<>> THEN 0
    ELSE 10 * DigitsValue(SubSeq(s, 1, Len(s) - 1)) + DigitVal(s[Len(s)])

AllDigits(s) == s # <<>> /\ \A i \in 1..Len(s) : IsDigit(s[i])

\* Position of the last occurrence of c in s, 0 when there is none.
LastIndex(s, c) ==
    IF \E i \in 1..Len(s) : s[i] = c
    THEN CHOOSE i \in 1..Len(s) :
            s[i] = c /\ \A j \in (i + 1)..Len(s) : s[j] # c
    ELSE 0

RECURSIVE Pow10(_)
Pow10(k) == IF k = 0 THEN 1 ELSE 10 * Pow10(k - 1)

\* A decimal fraction num/den in lowest power-of-ten terms.
RECURSIVE Reduce10(_, _)
Reduce10(num, den) ==
    IF den > 1 /\ num % 10 = 0 THEN Reduce10(num \div 10, den \div 10)
    ELSE [num |-> num, den |-> den]

-----------------------------------------------------------------------------
\* Field cleaning (forms.py: OrderForm over models.py: Orders)

\* forms.IntegerField.to_python for oid: strip, then int(); the inputs are
\* an optional sign followed by decimal digits.
ParseInt(raw) ==
    LET s == Strip(raw)
        neg == s # <<>> /\ Head(s) = "-"
        body == IF neg THEN Tail(s) ELSE s
    IN  IF AllDigits(body)
        THEN [ok |-> TRUE,
              val |-> IF neg THEN 0 - DigitsValue(body) ELSE DigitsValue(body)]
        ELSE [ok |-> FALSE, val |-> 0]

\* forms.FloatField.to_python for price: strip, then float(); the inputs are
\* plain decimal notation, digits with at most one decimal point.
ParseFloat(raw) ==
    LET s == Strip(raw)
        dot == LastIndex(s, ".")
        whole == IF dot = 0 THEN s ELSE SubSeq(s, 1, dot - 1)
        frac == IF dot = 0 THEN <<>> ELSE SubSeq(s, dot + 1, Len(s))
    IN  IF AllDigits(whole) /\ (frac = <<>> \/ AllDigits(frac))
        THEN [ok |-> TRUE,
              val |-> Reduce10(DigitsValue(whole) * Pow10(Len(frac))
                                 + DigitsValue(frac), Pow10(Len(frac)))]
        ELSE [ok |-> FALSE, val |-> [num |-> 0, den |-> 1]]

\* One dot-separated label of a mail domain.
IsLabel(s) == s # <<>> /\ \A i \in 1..Len(s) : IsAlnum(s[i])

RECURSIVE IsDomain(_)
IsDomain(s) ==
    LET dot == LastIndex(s, ".")
    IN  IF dot = 0 THEN IsLabel(s)
        ELSE IsLabel(SubSeq(s, dot + 1, Len(s))) /\ IsDomain(SubSeq(s, 1, dot - 1))

\* EmailValidator: split at the last "@"; a non-empty user part, and a domain
\* of at least two labels whose last one is two or more letters.
ValidEmail(s) ==
    LET at == LastIndex(s, "@")
        user == SubSeq(s, 1, at - 1)
        domain == SubSeq(s, at + 1, Len(s))
        dot == LastIndex(domain, ".")
        tld == SubSeq(domain, dot + 1, Len(domain))
    IN  /\ at > 0
        /\ user # <<>>
        /\ \A i \in 1..Len(user) : IsAlnum(user[i]) \/ user[i] \in {".", "-", "_"}
        /\ Head(user) # "." /\ user[Len(user)] # "."
        /\ dot > 0
        /\ IsDomain(domain)
        /\ Len(tld) >= 2
        /\ \A i \in 1..Len(tld) : tld[i] \in Letters

\* models.py line 5: oid = IntegerField(primary_key=True)
OidErrors(raw) ==
    IF Strip(raw) = <<>> THEN {<<"oid", "required">>}
    ELSE IF ~ParseInt(raw).ok THEN {<<"oid", "invalid">>}
    ELSE {}

\* Variant of CharErrors: the length limit is not enforced.
CharErrorsNoLimit(name, raw, maxLength) ==
    IF Strip(raw) = <<>> THEN {<<name, "required">>} ELSE {}

\* models.py lines 6, 7, 10: CharField(max_length=..)
CharErrors(name, raw, maxLength) ==
    IF Strip(raw) = <<>> THEN {<<name, "required">>}
    ELSE IF Len(Strip(raw)) > maxLength THEN {<<name, "max_length">>}
    ELSE {}

\* models.py line 8: price = FloatField()
PriceErrors(raw) ==
    IF Strip(raw) = <<>> THEN {<<"price", "required">>}
    ELSE IF ~ParseFloat(raw).ok THEN {<<"price", "invalid">>}
    ELSE {}

\* models.py line 9: mail = EmailField()
MailErrors(raw) ==
    IF Strip(raw) = <<>> THEN {<<"mail", "required">>}
    ELSE IF ~ValidEmail(Strip(raw)) THEN {<<"mail", "invalid">>}
    ELSE {}

\* The per-field errors of a submission (fields = '__all__').
FieldErrors(data) ==
    OidErrors(data.oid)
      \cup CharErrors("fname", data.fname, NameMaxLength)
      \cup CharErrors("lname", data.lname, NameMaxLength)
      \cup PriceErrors(data.price)
      \cup MailErrors(data.mail)
      \cup CharErrors("addr", data.addr, AddrMaxLength)

\* Variant of Clean: first and last name end up in each other's column.
CleanSwapped(data) ==
    [oid |-> ParseInt(data.oid).val,
     fname |-> Strip(data.lname),
     lname |-> Strip(data.fname),
     price |-> ParseFloat(data.price).val,
     mail |-> Strip(data.mail),
     addr |-> Strip(data.addr)]

\* The Orders instance the form builds from its cleaned data.
Clean(data) ==
    [oid |-> ParseInt(data.oid).val,
     fname |-> Strip(data.fname),
     lname |-> Strip(data.lname),
     price |-> ParseFloat(data.price).val,
     mail |-> Strip(data.mail),
     addr |-> Strip(data.addr)]

-----------------------------------------------------------------------------
\* The Orders table

StoreOids(st) == {row.oid : row \in st}

\* Variant of objects_all: the query returns a single row.
objects_first(st) == IF st = {} THEN {} ELSE {CHOOSE row \in st : TRUE}

\* Orders.objects.all()
objects_all(st) == st

\* Variant of PkConflict: oid is an ordinary column, not the primary key.
PkConflictNever(row, st) == FALSE

\* The primary-key constraint of the table: an INSERT of an oid that a row
\* already carries is refused.
PkConflict(row, st) == row.oid \in StoreOids(st)

\* Variant of UniqueErrors: validation does not look at the table.
UniqueErrorsNone(data, st) == {}

\* The uniqueness check is_valid() runs for a new instance: oid is unique
\* because it is the primary key.  It is skipped when oid failed to clean.
UniqueErrors(data, st) ==
    IF OidErrors(data.oid) = {} /\ ParseInt(data.oid).val \in StoreOids(st)
    THEN {<<"oid", "unique">>}
    ELSE {}

\* UPDATE crudapp_orders SET ... WHERE oid = row.oid
UpdateRows(row, st) == {r \in st : r.oid # row.oid} \cup {row}

\* INSERT INTO crudapp_orders ...
InsertRow(row, st) == st \cup {row}

-----------------------------------------------------------------------------
\* Requests, forms and responses

Methods == {"GET", "POST"}

\* urls.py lines 4-7
urlpatterns ==
    {[path |-> "ofv", view |-> "orderFormView", name |-> "order_url"],
     [path |-> "sv", view |-> "showView", name |-> "show_url"]}

Paths == {u.path : u \in urlpatterns}

\* The path of a named route (what redirect('show_url') resolves to).
Reverse(name) == (CHOOSE u \in urlpatterns : u.name = name).path

\* The view a path is routed to.
Resolve(path) == (CHOOSE u \in urlpatterns : u.path = path).view

EmptyData ==
    [oid |-> <<>>, fname |-> <<>>, lname |-> <<>>, price |-> <<>>,
     mail |-> <<>>, addr |-> <<>>]

\* A submission with every field valid; forms.py's placeholders give the shape.
ValidData(o, f) ==
    [oid |-> IntToStr(o), fname |-> f, lname |-> <<"S", "h", "i", "l">>,
     price |-> <<"9", ".", "5">>, mail |-> <<"a", "@", "b", ".", "c", "o">>,
     addr |-> <<"I", "N">>]

\* Two first names, one of them typed with a leading blank.
FirstNames == {<<"A", "l">>, <<" ", "B", "o">>}

ValidSubmissions == {ValidData(o, f) : o \in OIDS, f \in FirstNames}

BaseData == ValidData(101, <<"A", "l">>)

\* Submissions with exactly one field that fails its validation.
InvalidSubmissions ==
    {[BaseData EXCEPT !.mail = <<>>],
     [BaseData EXCEPT !.mail = <<"n", "o", "t", "-", "a", "n">>],
     [BaseData EXCEPT !.oid = <<>>],
     [BaseData EXCEPT !.oid = <<"1", "x">>],
     [BaseData EXCEPT !.price = <<"t", "e", "n">>],
     [BaseData EXCEPT !.fname = Rep("a", NameMaxLength + 1)],
     [BaseData EXCEPT !.lname = Rep("b", NameMaxLength + 1)],
     [BaseData EXCEPT !.addr = Rep("c", AddrMaxLength + 1)]}

Submissions == ValidSubmissions \cup InvalidSubmissions

\* The field errors and the cleaned instance of each submission, computed
\* once per submission (cleaning reads nothing but the submitted text).
field_errors == [d \in Submissions \cup {EmptyData} |-> FieldErrors(d)]

cleaned_data == [d \in Submissions \cup {EmptyData} |-> Clean(d)]

\* form.errors after is_valid()
FormErrors(data, st) == field_errors[data] \cup UniqueErrors(data, st)

NoReq == [method |-> "", path |-> "", data |-> EmptyData]

\* No form: the value of a handler's `form` outside orderFormView, and of a
\* response that renders no form.
NoForm == [bound |-> FALSE, data |-> EmptyData, errors |-> {}]

\* Variant of UnboundForm: the form object is shared by the handlers instead
\* of being built per request, so it shows what another request bound to it.
UnboundFormShared ==
    IF \E q \in Req : form[q].bound
    THEN form[CHOOSE q \in Req : form[q].bound]
    ELSE [bound |-> FALSE, data |-> EmptyData, errors |-> {}]

\* views.py line 7: form = OrderForm()
UnboundForm == [bound |-> FALSE, data |-> EmptyData, errors |-> {}]

\* Variant of BoundForm: the view re-renders a fresh form and loses the
\* submission.
BoundFormFresh(data, errs) == [bound |-> FALSE, data |-> EmptyData, errors |-> {}]

\* views.py line 9: form = OrderForm(request.POST), with the errors that
\* is_valid() records on it.
BoundForm(data, errs) == [bound |-> TRUE, data |-> data, errors |-> errs]

\* views.py line 10: form.is_valid()
is_valid(data, st) == FormErrors(data, st) = {}

NoResp ==
    [kind |-> "none", status |-> 0, template |-> "", form |-> NoForm,
     obj |-> {}, location |-> ""]

\* render(request, template_name, context)
Render(template, f, obj) ==
    [kind |-> "render", status |-> 200, template |-> template, form |-> f,
     obj |-> obj, location |-> ""]

\* redirect(name)
Redirect(name) ==
    [kind |-> "redirect", status |-> 302, template |-> "", form |-> NoForm,
     obj |-> {}, location |-> Reverse(name)]

\* The framework's answer to an exception that the view does not catch.
ServerError ==
    [kind |-> "error", status |-> 500, template |-> "", form |-> NoForm,
     obj |-> {}, location |-> ""]

-----------------------------------------------------------------------------
\* The state machine

Init ==
    /\ store = {}
    /\ pc = [r \in Req |-> "idle"]
    /\ req = [r \in Req |-> NoReq]
    /\ form = [r \in Req |-> NoForm]
    /\ resp = [r \in Req |-> NoResp]

\* views.py lines 6-15, up to the return of is_valid(): a request to 'ofv'.
\* A non-POST request, and a POST whose form is not valid, are answered here
\* with the rendered form; a valid POST goes on to form.save().
orderFormView(r) ==
    /\ pc[r] = "idle"
    /\ \E method \in Methods, path \in Paths :
       \E data \in (IF method = "POST" THEN Submissions ELSE {EmptyData}) :
          /\ Resolve(path) = "orderFormView"
          /\ req' = [req EXCEPT ![r] =
                        [method |-> method, path |-> path, data |-> data]]
          /\ IF method = "POST"
             THEN IF is_valid(data, store)
                  THEN /\ form' = [form EXCEPT ![r] = BoundForm(data, {})]
                       /\ pc' = [pc EXCEPT ![r] = "save"]
                       /\ resp' = resp
                  ELSE /\ form' = form
                       /\ pc' = [pc EXCEPT ![r] = "done"]
                       /\ resp' = [resp EXCEPT ![r] =
                               Render("crudapp/order.html",
                                      BoundForm(data, FormErrors(data, store)), {})]
             ELSE /\ form' = form
                  /\ pc' = [pc EXCEPT ![r] = "done"]
                  /\ resp' = [resp EXCEPT ![r] =
                                 Render("crudapp/order.html", UnboundForm, {})]
    /\ store' = store

\* views.py line 11, form.save(): the UPDATE that Model.save() tries first.
\* When it matches a row the save is complete and the view redirects
\* (line 12); otherwise the INSERT follows.
form_save_update(r) ==
    /\ pc[r] = "save"
    /\ LET row == cleaned_data[form[r].data]
       IN  IF PkConflict(row, store)
           THEN /\ store' = UpdateRows(row, store)
                /\ pc' = [pc EXCEPT ![r] = "done"]
                /\ resp' = [resp EXCEPT ![r] = Redirect("show_url")]
                /\ form' = [form EXCEPT ![r] = NoForm]
           ELSE /\ store' = store
                /\ pc' = [pc EXCEPT ![r] = "insert"]
                /\ UNCHANGED <<resp, form>>
    /\ req' = req

\* views.py lines 11-12, form.save(): the INSERT.  The table refuses a
\* duplicate primary key with an IntegrityError, which the view does not
\* catch; otherwise the row is stored and the view redirects.
form_save_insert(r) ==
    /\ pc[r] = "insert"
    /\ LET row == cleaned_data[form[r].data]
       IN  IF PkConflict(row, store)
           THEN /\ store' = store
                /\ resp' = [resp EXCEPT ![r] = ServerError]
           ELSE /\ store' = InsertRow(row, store)
                /\ resp' = [resp EXCEPT ![r] = Redirect("show_url")]
    /\ pc' = [pc EXCEPT ![r] = "done"]
    /\ form' = [form EXCEPT ![r] = NoForm]
    /\ req' = req

\* views.py lines 17-21: a request to 'sv', whatever its method.
showView(r) ==
    /\ pc[r] = "idle"
    /\ \E method \in Methods, path \in Paths :
          /\ Resolve(path) = "showView"
          /\ req' = [req EXCEPT ![r] =
                        [method |-> method, path |-> path, data |-> EmptyData]]
    /\ resp' = [resp EXCEPT ![r] =
                   Render("crudapp/show.html", NoForm, objects_all(store))]
    /\ pc' = [pc EXCEPT ![r] = "done"]
    /\ UNCHANGED <<store, form>>

\* The response has been sent; the handler is free for the next request and
\* keeps nothing of this one.
Finish(r) ==
    /\ pc[r] = "done"
    /\ pc' = [pc EXCEPT ![r] = "idle"]
    /\ req' = [req EXCEPT ![r] = NoReq]
    /\ resp' = [resp EXCEPT ![r] = NoResp]
    /\ UNCHANGED <<store, form>>

Next ==
    \E r \in Req :
        \/ orderFormView(r)
        \/ form_save_update(r)
        \/ form_save_insert(r)
        \/ showView(r)
        \/ Finish(r)

Spec == Init /\ [][Next]_vars

-----------------------------------------------------------------------------
\* Properties

\* The row a valid submission ValidData(o, f) stands for: the number o, the
\* texts without surrounding blanks, the price 9.5.
SubmittedRow(o, f) ==
    [oid |-> o, fname |-> Strip(f), lname |-> <<"S", "h", "i", "l">>,
     price |-> [num |-> 95, den |-> 10],
     mail |-> <<"a", "@", "b", ".", "c", "o">>, addr |-> <<"I", "N">>]

\* Handler r takes a step that starts a POST to the creation route.
PostArrives(r) ==
    /\ pc[r] = "idle"
    /\ pc'[r] # "idle"
    /\ req'[r].method = "POST"
    /\ req'[r].path = "ofv"

\* The oid a submission carries is that of a stored row.
OidStored(data, st) == \E o \in StoreOids(st) : data.oid = IntToStr(o)

C2_InvalidNotPersisted ==
    /\ [](\A r \in Req :
            pc[r] \in {"save", "insert"} => req[r].data \notin InvalidSubmissions)
    /\ [][\A r \in Req :
            (PostArrives(r) /\ req'[r].data \in InvalidSubmissions)
            => (store' = store /\ pc'[r] = "done")]_vars

\* A POST with too long an address has been answered while the table holds
\* a row.
C2_Witness ==
    \E r \in Req :
        /\ pc[r] = "done"
        /\ req[r].method = "POST"
        /\ req[r].data = [BaseData EXCEPT !.addr = Rep("c", AddrMaxLength + 1)]
        /\ resp[r].kind = "render"
        /\ store # {}

\* C3: no two rows of the table have the same oid.
C3_UniqueOid ==
    \A r1 \in store, r2 \in store : r1.oid = r2.oid => r1 = r2

\* The table has refused an INSERT of an oid it already holds.
C3_Witness ==
    \E r \in Req :
        /\ pc[r] = "done"
        /\ resp[r].kind = "error"
        /\ OidStored(req[r].data, store)

\* C4 as stated: a POST with valid fields whose oid is that of a stored row
\* ends as a request failure, neither the redirect nor a re-rendered form,
\* and the table is unchanged.
C4_DuplicateUnhandled ==
    [][\A r \in Req :
          ( /\ PostArrives(r)
            /\ req'[r].data \in ValidSubmissions
            /\ OidStored(req'[r].data, store) )
          => /\ store' = store
             /\ resp'[r].kind \notin {"redirect", "render"}]_vars

\* C4 amended: a POST with valid fields whose oid is that of a row stored
\* when the form is validated fails validation: the response is the
\* re-rendered creation form (status 200) with a uniqueness error on oid,
\* the request never reaches the save, and the table is unchanged.
C4_DuplicateIsValidationError ==
    [][\A r \in Req :
          ( /\ PostArrives(r)
            /\ req'[r].data \in ValidSubmissions
            /\ OidStored(req'[r].data, store) )
          => /\ store' = store
             /\ pc'[r] = "done"
             /\ resp'[r].kind = "render"
             /\ resp'[r].status = 200
             /\ resp'[r].template = "crudapp/order.html"
             /\ resp'[r].form.errors = {<<"oid", "unique">>}]_vars

\* A valid submission with a stored oid has been answered with the form and
\* the uniqueness error.
C4_Witness ==
    \E r \in Req :
        /\ pc[r] = "done"
        /\ req[r].data \in ValidSubmissions
        /\ OidStored(req[r].data, store)
        /\ resp[r].kind = "render"
        /\ <<"oid", "unique">> \in resp[r].form.errors

\* C5: records are never updated or deleted: a row of the table is a row of
\* the table in every later state.
C5_NeverUpdatedOrDeleted ==
    [][\A row \in store : row \in store']_vars

C7_InvalidRerendersBoundForm ==
    [][\A r \in Req :
          ( /\ PostArrives(r)
            /\ \/ req'[r].data \in InvalidSubmissions
               \/ OidStored(req'[r].data, store) )
          => /\ pc'[r] = "done"
             /\ resp'[r].kind = "render"
             /\ resp'[r].status = 200
             /\ resp'[r].template = "crudapp/order.html"
             /\ resp'[r].form.bound
             /\ resp'[r].form.data = req'[r].data
             /\ resp'[r].form.errors # {}]_vars

\* A POST without mail has been answered with the bound form and the
\* required-field error for mail.
C7_Witness ==
    \E r \in Req :
        /\ pc[r] = "done"
        /\ req[r].method = "POST"
        /\ req[r].data = [BaseData EXCEPT !.mail = <<>>]
        /\ resp[r].form.data = req[r].data
        /\ resp[r].form.errors = {<<"mail", "required">>}

\* C8: a GET on the creation route is answered with the creation form, all
\* six fields empty and no errors, whatever the other requests were.
C8_GetFormEmpty ==
    \A r \in Req :
        (pc[r] = "done" /\ req[r].path = "ofv" /\ req[r].method = "GET")
        => /\ resp[r].kind = "render"
           /\ resp[r].status = 200
           /\ resp[r].template = "crudapp/order.html"
           /\ ~resp[r].form.bound
           /\ \A k \in DOMAIN resp[r].form.data : resp[r].form.data[k] = <<>>
           /\ DOMAIN resp[r].form.data =
                 {"oid", "fname", "lname", "price", "mail", "addr"}
           /\ resp[r].form.errors = {}

\* A GET on the creation route has been answered while the failed POST of
\* another handler stands answered with its errors and the table holds a row.
C8_Witness ==
    \E r \in Req, q \in Req :
        /\ pc[r] = "done" /\ req[r].path = "ofv" /\ req[r].method = "GET"
        /\ pc[q] = "done" /\ req[q].method = "POST"
        /\ resp[q].form.errors # {}
        /\ store # {}

\* C9: of two POSTs with the same oid and valid fields that are both
\* answered, at most one is answered with the redirect, and the row stored
\* under that oid holds the values of the one that was redirected.
C9_OneWinner ==
    \A r1 \in Req, r2 \in Req :
        ( /\ r1 # r2
          /\ pc[r1] = "done" /\ pc[r2] = "done"
          /\ req[r1].method = "POST" /\ req[r2].method = "POST"
          /\ req[r1].data \in ValidSubmissions
          /\ req[r2].data \in ValidSubmissions
          /\ req[r1].data.oid = req[r2].data.oid )
        => /\ ~(resp[r1].kind = "redirect" /\ resp[r2].kind = "redirect")
           /\ resp[r1].kind = "redirect"
                => \E o \in OIDS, f \in FirstNames :
                      /\ req[r1].data = ValidData(o, f)
                      /\ SubmittedRow(o, f) \in store

\* C10: the table changes only in a step of the save of a validated POST,
\* and each change adds exactly one row and keeps the others.
C10_OnlyAddsOne ==
    [][store' # store
          => /\ \E r \in Req :
                  /\ pc[r] \in {"save", "insert"}
                  /\ pc'[r] = "done"
                  /\ req[r].method = "POST"
                  /\ req[r].path = "ofv"
             /\ store \subseteq store'
             /\ Cardinality(store') = Cardinality(store) + 1]_vars

====
